---- MODULE Spec2Model ----
(***************************************************************************)
(* A model of librespot-downloader (src/src/main.rs): the ranked format    *)
(* selection, the Subfile stream adapter, the cover-art cache and the      *)
(* per-track / per-album download pipeline of Downloader.                  *)
(***************************************************************************)
EXTENDS Integers, Sequences, FiniteSets, TLC

VARIABLES
    pc,                 \* position of the running operation (the stage about to run)
    ntracks,            \* number of entries of album.tracks()
    idx,                \* index (1-based) of the track being processed, 0 before the loop
    track,              \* the Track being processed: [isTrack, id, absolute, files, covers]
    selected,           \* (format, file_id) chosen by the format selection, as an Option
    key,                \* the Option<AudioKey> handed to AudioDecrypt::new
    stream,             \* the underlying Read + Seek stream: [data, pos]
    audio_file,         \* the Subfile over it, as an Option of [offset, length]
    fresh,              \* TRUE while no seek was made on the Subfile since Subfile::new
    out,                \* bytes read from the Subfile since Subfile::new
    ret,                \* what the last call on the Subfile / get_cover returned
    dir,                \* whether the album directory exists (create_dir_all succeeded)
    saved,              \* the "Decrypted content saved to" lines logged: set of [idx, path]
    disk,               \* the output files written: path -> [ext, bytes, tag]
    log,                \* the log lines written so far: set of [level, idx, msg]
    trace,              \* the stages run so far, in order: <<idx, stage, outcome>> each
    result,             \* what download_album returned: <<>>, <<"Ok">> or <<"Err", stage>>
    album_cover_cache,  \* Downloader.album_cover_cache: cover id -> [data, mime]
    fetches,            \* network fetches issued by download_cover: sequence of [id, ok]
    cover_returns       \* what the get_cover calls returned, in order: [id, res, val] each

vars == << pc, ntracks, idx, track, selected, key, stream, audio_file, fresh, out, ret,
           dir, saved, disk, log, trace, result, album_cover_cache, fetches, cover_returns >>

(***************************************************************************)
(* Bounds of the model.                                                    *)
(***************************************************************************)
MaxTracks == 3      \* tracks of an album
MaxFiles == 2       \* entries of a track's candidate mapping (format selection runs)
MaxFileIds == 2     \* distinct remote file handles
MaxLen == 3         \* stream length, offset and window length (Subfile runs)
MaxCalls == 3       \* get_cover calls on one Downloader (cover cache runs)

None == << >>
Some(x) == << x >>
IsSome(o) == o # << >>
Unwrap(o) == o[1]

Min(a, b) == IF a < b THEN a ELSE b

(***************************************************************************)
(* Program constants.                                                      *)
(***************************************************************************)
SPOTIFY_OGG_HEADER_END == 167

FORMAT_PREFERENCE ==
    << "FLAC_FLAC_24BIT", "FLAC_FLAC", "AAC_320", "MP3_320", "MP3_256",
       "OGG_VORBIS_320", "AAC_160", "MP3_160_ENC", "MP3_160", "OGG_VORBIS_160",
       "MP4_128", "AAC_48", "AAC_24", "XHE_AAC_24", "XHE_AAC_16", "XHE_AAC_12",
       "OGG_VORBIS_96", "MP3_96", "OTHER5" >>

\* The variants of AudioFileFormat: the exhaustive match of format_data_rate.
AudioFileFormat ==
    { "OGG_VORBIS_96", "OGG_VORBIS_160", "OGG_VORBIS_320", "MP3_256", "MP3_320",
      "MP3_160", "MP3_96", "MP3_160_ENC", "AAC_24", "AAC_48", "AAC_160", "AAC_320",
      "MP4_128", "OTHER5", "FLAC_FLAC", "XHE_AAC_12", "XHE_AAC_16", "XHE_AAC_24",
      "FLAC_FLAC_24BIT" }

get_extension_from_format(format) ==
    CASE format \in {"OGG_VORBIS_96", "OGG_VORBIS_160", "OGG_VORBIS_320"} -> "ogg"
      [] format \in {"MP3_96", "MP3_160", "MP3_256", "MP3_320", "MP3_160_ENC"} -> "mp3"
      [] format \in {"AAC_24", "AAC_48", "AAC_160", "AAC_320", "MP4_128",
                     "XHE_AAC_12", "XHE_AAC_16", "XHE_AAC_24"} -> "aac"
      [] format \in {"FLAC_FLAC", "FLAC_FLAC_24BIT"} -> "flac"
      [] OTHER -> "bin"

\* AudioFiles::is_ogg_vorbis as download_track uses it: the vorbis family.
is_ogg_vorbis(format) ==
    format \in {"OGG_VORBIS_96", "OGG_VORBIS_160", "OGG_VORBIS_320"}

(***************************************************************************)
(* Format selection (download_track, FORMAT_PREFERENCE.iter().find_map).   *)
(* track.files is a hash map; the model keeps it as the sequence of its    *)
(* (format, file_id) entries in one iteration order, keys distinct.        *)
(***************************************************************************)
FileIds == 1 .. MaxFileIds

Keys(files) == { files[i][1] : i \in 1 .. Len(files) }

\* track.files.get(format)
FilesGet(files, format) ==
    IF format \in Keys(files)
    THEN Some((CHOOSE i \in 1 .. Len(files) : files[i][1] = format))
    ELSE None

\* A slip: take the first supported entry in the mapping's iteration order.
SelectFormatByMapOrder(files) ==
    LET hits == { i \in 1 .. Len(files) :
                    \E j \in 1 .. Len(FORMAT_PREFERENCE) : FORMAT_PREFERENCE[j] = files[i][1] }
    IN  IF hits = {} THEN None
        ELSE LET i == CHOOSE h \in hits : \A g \in hits : h <= g
             IN  Some(<< files[i][1], files[i][2] >>)

\* FORMAT_PREFERENCE.iter().find_map(|format| track.files.get(format).map(..))
SelectFormat(files) ==
    LET hits == { j \in 1 .. Len(FORMAT_PREFERENCE) :
                    IsSome(FilesGet(files, FORMAT_PREFERENCE[j])) }
    IN  IF hits = {} THEN None
        ELSE LET j == CHOOSE h \in hits : \A g \in hits : h <= g
                 format == FORMAT_PREFERENCE[j]
             IN  Some(<< format, files[Unwrap(FilesGet(files, format))][2] >>)

\* Every candidate mapping of at most n entries, in every iteration order.
FilesUpTo(n) ==
    { f \in UNION { [1 .. m -> AudioFileFormat \X FileIds] : m \in 0 .. n } :
        \A i, j \in 1 .. Len(f) : f[i][1] = f[j][1] => i = j }

(***************************************************************************)
(* The underlying stream T: Read + Seek, as [data, pos]: a byte sequence   *)
(* and a position counted from 0 (the contract of std::io::Read and Seek:  *)
(* a seek to a negative position is an error and leaves the position; a    *)
(* seek past the end is allowed and the next read returns no bytes).       *)
(***************************************************************************)
\* The byte of the remote encrypted object at absolute position i (from 0).
RemoteByte(i) == (7 * i + 3) % 256

RemoteData(L) == [i \in 1 .. L |-> RemoteByte(i - 1)]

\* The plaintext of one byte (a bijection on bytes that is not the identity).
DecryptByte(b) == 255 - b

SeekTarget(s, pos) ==
    CASE pos.whence = "Start" -> pos.n
      [] pos.whence = "End" -> Len(s.data) + pos.n
      [] pos.whence = "Current" -> s.pos + pos.n

\* self.stream.seek(pos); io_error: the stream fails for a reason of its own.
StreamSeek(s, pos, io_error) ==
    IF io_error THEN [ok |-> FALSE, kind |-> "Other", stream |-> s]
    ELSE IF SeekTarget(s, pos) < 0 THEN [ok |-> FALSE, kind |-> "InvalidInput", stream |-> s]
    ELSE [ok |-> TRUE, newpos |-> SeekTarget(s, pos),
          stream |-> [s EXCEPT !.pos = SeekTarget(s, pos)]]

\* self.stream.read(buf) with a buffer of m bytes.
StreamRead(s, m) ==
    LET n == IF s.pos >= Len(s.data) THEN 0 ELSE Min(m, Len(s.data) - s.pos)
    IN  [bytes |-> SubSeq(s.data, s.pos + 1, s.pos + n),
         stream |-> [s EXCEPT !.pos = s.pos + n]]

\* AudioDecrypt::new(key, encrypted_file): plaintext with a key, pass-through without.
AudioDecryptNew(k, s) ==
    IF IsSome(k)
    THEN [s EXCEPT !.data = [i \in 1 .. Len(s.data) |-> DecryptByte(s.data[i])]]
    ELSE s

(***************************************************************************)
(* Subfile<T>.                                                             *)
(***************************************************************************)
\* A slip: the window is built without moving the stream to its start.
SubfileNewNoSeek(s, offset, length, io_error) ==
    IF io_error
    THEN [ok |-> FALSE, kind |-> "Other", stream |-> s]
    ELSE [ok |-> TRUE, stream |-> s, subfile |-> [offset |-> offset, length |-> length]]

\* Subfile::new: seek the stream to Start(offset), keep offset and length.
SubfileNew(s, offset, length, io_error) ==
    LET r == StreamSeek(s, [whence |-> "Start", n |-> offset], io_error)
    IN  IF r.ok
        THEN [ok |-> TRUE, stream |-> r.stream,
              subfile |-> [offset |-> offset, length |-> length]]
        ELSE [ok |-> FALSE, kind |-> r.kind, stream |-> r.stream]

\* <Subfile as Read>::read: the underlying read, unclipped.
SubfileRead(s, sf, m) == StreamRead(s, m)

\* <Subfile as Seek>::seek.  newpos - self.offset is a u64 subtraction: when it
\* underflows the build decides, a panic (overflow checks on) or the wrapped value
\* 2^64 + (newpos - offset), kept here as the negative difference (wraps).
SubfileSeek(s, sf, pos, io_error, wraps) ==
    IF pos.whence = "End" /\ (sf.length - pos.n) < sf.offset
    THEN [res |-> "Err", kind |-> "InvalidInput", val |-> 0, stream |-> s]
    ELSE LET target == IF pos.whence = "Start"
                       THEN [whence |-> "Start", n |-> pos.n + sf.offset]
                       ELSE pos
             r == StreamSeek(s, target, io_error)
         IN  IF ~r.ok
             THEN [res |-> "Err", kind |-> r.kind, val |-> 0, stream |-> r.stream]
             ELSE IF r.newpos >= sf.offset
             THEN [res |-> "Ok", kind |-> "", val |-> r.newpos - sf.offset, stream |-> r.stream]
             ELSE IF wraps
             THEN [res |-> "OkWrapped", kind |-> "", val |-> r.newpos - sf.offset,
                   stream |-> r.stream]
             ELSE [res |-> "Panic", kind |-> "", val |-> 0, stream |-> r.stream]

\* io::copy(audio_file, &mut outfile): read until a read returns no bytes.
RECURSIVE CopyAll(_, _)
CopyAll(s, sf) ==
    LET r == SubfileRead(s, sf, 8192)
    IN  IF r.bytes = << >> THEN [bytes |-> << >>, stream |-> r.stream]
        ELSE LET rest == CopyAll(r.stream, sf)
             IN  [bytes |-> r.bytes \o rest.bytes, stream |-> rest.stream]

(***************************************************************************)
(* Cover art: get_cover and download_cover.                                *)
(***************************************************************************)
size_rank(size) ==
    CASE size = "DEFAULT" -> 0
      [] size = "SMALL" -> 1
      [] size = "LARGE" -> 2
      [] size = "XLARGE" -> 3

\* A slip: the first of the covers of the highest rank.
MaxByKeyFirst(covers) ==
    LET best == { i \in 1 .. Len(covers) :
                    \A j \in 1 .. Len(covers) :
                        size_rank(covers[j].size) <= size_rank(covers[i].size) }
    IN  covers[CHOOSE i \in best : \A j \in best : i <= j]

\* covers.iter().max_by_key(|cover| size_rank(cover.size)): the last maximum.
MaxByKey(covers) ==
    LET best == { i \in 1 .. Len(covers) :
                    \A j \in 1 .. Len(covers) :
                        size_rank(covers[j].size) <= size_rank(covers[i].size) }
    IN  covers[CHOOSE i \in best : \A j \in best : j <= i]

\* Response bodies the image server may send: a PNG, a GIF, and bytes of no known type.
CoverBodies == { << 137, 80, 78, 71, 1 >>, << 71, 73, 70, 56 >>, << 0, 3 >> }

\* data starts with the bytes of magic.
StartsWith(data, magic) ==
    Len(data) >= Len(magic) /\ SubSeq(data, 1, Len(magic)) = magic

\* data holds the bytes of magic from the position off (counted from 0) on.
At(data, off, magic) ==
    Len(data) >= off + Len(magic) /\ SubSeq(data, off + 1, off + Len(magic)) = magic

\* The byte order marks of a TIFF container (shared by TIFF and Canon CR2).
IsTiffContainer(data) ==
    /\ Len(data) > 9
    /\ StartsWith(data, << 73, 73, 42, 0 >>) \/ StartsWith(data, << 77, 77, 0, 42 >>)

\* The "ftyp" box of an ISO base media file: its length (a big-endian u32), its major
\* brand and the compatible brands that follow the minor version.
FtypLength(data) == ((data[1] * 256 + data[2]) * 256 + data[3]) * 256 + data[4]

IsIsoBmff(data) ==
    /\ Len(data) >= 16
    /\ At(data, 4, << 102, 116, 121, 112 >>)
    /\ Len(data) >= FtypLength(data)

FtypMajor(data) == SubSeq(data, 9, 12)

FtypCompatible(data) ==
    { SubSeq(data, i + 1, i + 4) :
        i \in { j \in 16 .. FtypLength(data) - 1 : j % 4 = 0 /\ j + 4 <= Len(data) } }

\* is_heif: the major brand heic, or mif1 / msf1 with heic among the compatible brands.
IsHeif(data) ==
    /\ IsIsoBmff(data)
    /\ \/ FtypMajor(data) = << 104, 101, 105, 99 >>
       \/ /\ FtypMajor(data) \in { << 109, 105, 102, 49 >>, << 109, 115, 102, 49 >> }
          /\ << 104, 101, 105, 99 >> \in FtypCompatible(data)

\* is_avif: avif or avis as the major brand or among the compatible brands.
IsAvif(data) ==
    /\ IsIsoBmff(data)
    /\ ({FtypMajor(data)} \cup FtypCompatible(data))
          \cap { << 97, 118, 105, 102 >>, << 97, 118, 105, 115 >> } # {}

\* The text matchers skip leading white space and compare letters in either case.
RECURSIVE TrimStart(_)
TrimStart(data) ==
    IF data # << >> /\ data[1] \in {9, 10, 12, 13, 32} THEN TrimStart(Tail(data)) ELSE data

UpperByte(b) == IF b \in 97 .. 122 THEN b - 32 ELSE b

StartsWithIgnoreCase(data, magic) ==
    /\ Len(data) >= Len(magic)
    /\ \A i \in 1 .. Len(magic) : UpperByte(data[i]) = UpperByte(magic[i])

\* The four-byte brands is_mp4 accepts after "ftyp".
Mp4Brands ==
    { << 97, 118, 99, 49 >>, << 100, 97, 115, 104 >>, << 105, 115, 111, 50 >>,
      << 105, 115, 111, 51 >>, << 105, 115, 111, 52 >>, << 105, 115, 111, 53 >>,
      << 105, 115, 111, 54 >>, << 105, 115, 111, 109 >>, << 109, 109, 112, 52 >>,
      << 109, 112, 52, 49 >>, << 109, 112, 52, 50 >>, << 109, 112, 52, 118 >>,
      << 109, 112, 55, 49 >>, << 77, 83, 78, 86 >>, << 78, 68, 65, 83 >>, << 78, 68, 83, 67 >>,
      << 78, 68, 83, 72 >>, << 78, 68, 83, 77 >>, << 78, 68, 83, 80 >>, << 78, 68, 83, 83 >>,
      << 78, 68, 88, 67 >>, << 78, 68, 88, 72 >>, << 78, 68, 88, 77 >>, << 78, 68, 88, 80 >>,
      << 78, 68, 88, 83 >>, << 70, 52, 86, 32 >>, << 70, 52, 80, 32 >> }

\* The openings is_html looks for, in capitals.
HtmlTags ==
    { << 60, 33, 68, 79, 67, 84, 89, 80, 69, 32, 72, 84, 77, 76 >>, << 60, 72, 84, 77, 76 >>,
      << 60, 72, 69, 65, 68 >>, << 60, 83, 67, 82, 73, 80, 84 >>,
      << 60, 73, 70, 82, 65, 77, 69 >>, << 60, 72, 49 >>, << 60, 68, 73, 86 >>,
      << 60, 70, 79, 78, 84 >>, << 60, 84, 65, 66, 76, 69 >>, << 60, 65 >>,
      << 60, 83, 84, 89, 76, 69 >>, << 60, 84, 73, 84, 76, 69 >>, << 60, 66 >>,
      << 60, 66, 79, 68, 89 >>, << 60, 66, 82 >>, << 60, 80 >>, << 60, 33, 45, 45 >> }

\* The first entry of an EPUB container: "mimetypeapplication/epub+zip".
EpubMimetype ==
    << 109, 105, 109, 101, 116, 121, 112, 101, 97, 112, 112, 108, 105, 99, 97, 116, 105, 111,
       110, 47, 101, 112, 117, 98, 43, 122, 105, 112 >>

\* The first entry of an OpenRaster container: "mimetypeimage/openraster".
OraMimetype ==
    << 109, 105, 109, 101, 116, 121, 112, 101, 105, 109, 97, 103, 101, 47, 111, 112, 101, 110,
       114, 97, 115, 116, 101, 114 >>

\* The opening of a Debian package: "!<arch>", a line feed, "debian-binary".
DebMagic ==
    << 33, 60, 97, 114, 99, 104, 62, 10, 100, 101, 98, 105, 97, 110, 45, 98, 105, 110, 97, 114,
       121 >>

\* is_html: one of the openings, followed by a space or by '>'.
IsHtml(data) ==
    LET buf == TrimStart(data)
    IN  \E tag \in HtmlTags :
            /\ StartsWithIgnoreCase(buf, tag)
            /\ Len(buf) > Len(tag)
            /\ buf[Len(tag) + 1] \in {32, 62}

\* infer matchers::app, in the order infer tries them.
InferApp(data) ==
    CASE At(data, 0, << 0, 97, 115, 109, 1, 0, 0, 0 >>) -> Some("application/wasm")
      [] Len(data) > 52 /\ At(data, 0, << 127, 69, 76, 70 >>) -> Some("application/x-executable")
      [] At(data, 0, << 77, 90 >>) -> Some("application/vnd.microsoft.portable-executable")
      [] At(data, 0, << 202, 254, 186, 190 >>) /\ Len(data) >= 8 /\ 256 * data[7] + data[8] >= 45
           -> Some("application/java")
      [] At(data, 0, << 66, 67 >>) -> Some("application/x-llvm")
      [] (At(data, 0, << 254, 237, 250, 206 >>) \/ At(data, 0, << 254, 237, 250, 207 >>) \/
           At(data, 0, << 206, 250, 237, 254 >>) \/ At(data, 0, << 207, 250, 237, 254 >>) \/
           At(data, 0, << 202, 254, 186, 190 >>)) -> Some("application/x-mach-binary")
      [] Len(data) > 36 /\ At(data, 0, << 100, 101, 120, 10 >>) /\ data[37] = 112
           -> Some("application/vnd.android.dex")
      [] Len(data) > 100 /\ At(data, 0, << 100, 101, 121, 10 >>) /\
           At(data, 40, << 100, 101, 120, 10 >>) /\ data[77] = 112
           -> Some("application/vnd.android.dey")
      [] Len(data) > 2 /\ At(data, 0, << 48, 130 >>) -> Some("application/x-x509-ca-cert")
      [] Len(data) > 2 /\ (At(data, 0, << 76, 1 >>) \/ At(data, 0, << 100, 134 >>) \/
           At(data, 0, << 0, 2 >>)) -> Some("application/x-executable")
      [] OTHER -> None

\* infer matchers::book, in the order infer tries them.
InferBook(data) ==
    CASE Len(data) > 57 /\ At(data, 0, << 80, 75, 3, 4 >>) /\ At(data, 30, EpubMimetype)
           -> Some("application/epub+zip")
      [] Len(data) > 67 /\ At(data, 60, << 66, 79, 79, 75, 77, 79, 66, 73 >>)
           -> Some("application/x-mobipocket-ebook")
      [] OTHER -> None

\* infer matchers::image, in the order infer tries them.
InferImage(data) ==
    CASE Len(data) > 2 /\ At(data, 0, << 255, 216, 255 >>) -> Some("image/jpeg")
      [] Len(data) > 12 /\ At(data, 0, << 0, 0, 0, 12, 106, 80, 32, 32, 13, 10, 135, 10, 0 >>)
           -> Some("image/jp2")
      [] Len(data) > 3 /\ At(data, 0, << 137, 80, 78, 71 >>) -> Some("image/png")
      [] Len(data) > 2 /\ At(data, 0, << 71, 73, 70 >>) -> Some("image/gif")
      [] Len(data) > 11 /\ At(data, 8, << 87, 69, 66, 80 >>) -> Some("image/webp")
      [] IsTiffContainer(data) /\ data[9] = 67 /\ data[10] = 82 -> Some("image/x-canon-cr2")
      [] IsTiffContainer(data) /\ data[9] # 67 /\ data[10] # 82 -> Some("image/tiff")
      [] Len(data) > 1 /\ At(data, 0, << 66, 77 >>) -> Some("image/bmp")
      [] Len(data) > 2 /\ At(data, 0, << 73, 73, 188 >>) -> Some("image/vnd.ms-photo")
      [] Len(data) > 3 /\ At(data, 0, << 56, 66, 80, 83 >>) -> Some("image/vnd.adobe.photoshop")
      [] Len(data) > 3 /\ At(data, 0, << 0, 0, 1, 0 >>) -> Some("image/vnd.microsoft.icon")
      [] IsHeif(data) -> Some("image/heif")
      [] IsAvif(data) -> Some("image/avif")
      [] (At(data, 0, << 255, 10 >>) \/
           At(data, 0, << 0, 0, 0, 12, 74, 88, 76, 32, 13, 10, 135, 10 >>)) -> Some("image/jxl")
      [] Len(data) > 57 /\ At(data, 0, << 80, 75, 3, 4 >>) /\ At(data, 30, OraMimetype)
           -> Some("image/openraster")
      [] Len(data) > 14 /\ At(data, 0, << 65, 84, 38, 84, 70, 79, 82, 77 >>) /\
           At(data, 12, << 68, 74, 86 >>) -> Some("image/vnd.djvu")
      [] OTHER -> None

\* infer matchers::video, in the order infer tries them.
InferVideo(data) ==
    CASE Len(data) > 11 /\ At(data, 4, << 102, 116, 121, 112 >>) /\
           SubSeq(data, 9, 12) \in Mp4Brands -> Some("video/mp4")
      [] Len(data) > 10 /\ At(data, 4, << 102, 116, 121, 112, 77, 52, 86 >>) -> Some("video/x-m4v")
      [] ((Len(data) > 15 /\ At(data, 0, << 26, 69, 223, 163, 147, 66, 130, 136 >>) /\
           At(data, 8, << 109, 97, 116, 114, 111, 115, 107, 97 >>)) \/ (Len(data) > 38 /\
           At(data, 31, << 109, 97, 116, 114, 111, 115, 107, 97 >>))) -> Some("video/x-matroska")
      [] Len(data) > 3 /\ At(data, 0, << 26, 69, 223, 163 >>) -> Some("video/webm")
      [] Len(data) > 15 /\ ((At(data, 0, << 0, 0, 0, 20 >>) /\
           At(data, 4, << 102, 116, 121, 112 >>)) \/ At(data, 4, << 109, 111, 111, 118 >>) \/
           At(data, 4, << 109, 100, 97, 116 >>) \/ At(data, 12, << 109, 100, 97, 116 >>))
           -> Some("video/quicktime")
      [] Len(data) > 10 /\ At(data, 0, << 82, 73, 70, 70 >>) /\ At(data, 8, << 65, 86, 73 >>)
           -> Some("video/x-msvideo")
      [] Len(data) > 9 /\ At(data, 0, << 48, 38, 178, 117, 142, 102, 207, 17, 166, 217 >>)
           -> Some("video/x-ms-wmv")
      [] Len(data) > 3 /\ At(data, 0, << 0, 0, 1 >>) /\ data[4] \in 176 .. 191 -> Some("video/mpeg")
      [] Len(data) > 3 /\ At(data, 0, << 70, 76, 86, 1 >>) -> Some("video/x-flv")
      [] OTHER -> None

\* infer matchers::audio, in the order infer tries them.
InferAudio(data) ==
    CASE Len(data) > 3 /\ At(data, 0, << 77, 84, 104, 100 >>) -> Some("audio/midi")
      [] Len(data) > 2 /\ (At(data, 0, << 73, 68, 51 >>) \/ At(data, 0, << 255, 251 >>))
           -> Some("audio/mpeg")
      [] Len(data) > 10 /\ (At(data, 4, << 102, 116, 121, 112, 77, 52, 65 >>) \/
           At(data, 0, << 77, 52, 65, 32 >>)) -> Some("audio/m4a")
      [] Len(data) > 35 /\ At(data, 0, << 79, 103, 103, 83 >>) /\
           At(data, 28, << 79, 112, 117, 115, 72, 101, 97, 100 >>) -> Some("audio/opus")
      [] Len(data) > 3 /\ At(data, 0, << 79, 103, 103, 83 >>) -> Some("audio/ogg")
      [] Len(data) > 3 /\ At(data, 0, << 102, 76, 97, 67 >>) -> Some("audio/x-flac")
      [] Len(data) > 11 /\ At(data, 0, << 82, 73, 70, 70 >>) /\ At(data, 8, << 87, 65, 86, 69 >>)
           -> Some("audio/x-wav")
      [] Len(data) > 11 /\ At(data, 0, << 35, 33, 65, 77, 82, 10 >>) -> Some("audio/amr")
      [] Len(data) > 1 /\ (At(data, 0, << 255, 241 >>) \/ At(data, 0, << 255, 249 >>))
           -> Some("audio/aac")
      [] Len(data) > 11 /\ At(data, 0, << 70, 79, 82, 77 >>) /\ At(data, 8, << 65, 73, 70, 70 >>)
           -> Some("audio/x-aiff")
      [] Len(data) > 4 /\ At(data, 0, << 68, 83, 68, 32 >>) -> Some("audio/x-dsf")
      [] Len(data) > 4 /\ At(data, 0, << 77, 65, 67, 32 >>) -> Some("audio/x-ape")
      [] OTHER -> None

\* infer matchers::font, in the order infer tries them.
InferFont(data) ==
    CASE Len(data) > 7 /\ (At(data, 0, << 119, 79, 70, 70 >>) \/
           At(data, 0, << 119, 79, 70, 50 >>)) /\ At(data, 4, << 0, 1, 0, 0 >>)
           -> Some("application/font-woff")
      [] Len(data) > 4 /\ (At(data, 0, << 0, 1, 0, 0, 0 >>) \/
           At(data, 0, << 79, 84, 84, 79, 0 >>)) -> Some("application/font-sfnt")
      [] OTHER -> None

\* infer matchers::archive, in the order infer tries them.
InferArchive(data) ==
    CASE Len(data) > 3 /\ At(data, 0, << 80, 75 >>) /\ data[3] \in {3, 5, 7} /\
           data[4] \in {4, 6, 8} -> Some("application/zip")
      [] Len(data) > 261 /\ At(data, 257, << 117, 115, 116, 97, 114 >>) -> Some("application/x-tar")
      [] Len(data) > 6 /\ At(data, 0, << 82, 97, 114, 33, 26, 7 >>) /\ data[7] \in {0, 1}
           -> Some("application/vnd.rar")
      [] Len(data) > 2 /\ At(data, 0, << 31, 139, 8 >>) -> Some("application/gzip")
      [] Len(data) > 2 /\ At(data, 0, << 66, 90, 104 >>) -> Some("application/x-bzip2")
      [] Len(data) > 5 /\ At(data, 0, << 55, 122, 188, 175, 39, 28 >>)
           -> Some("application/x-7z-compressed")
      [] Len(data) > 5 /\ At(data, 0, << 253, 55, 122, 88, 90, 0 >>) -> Some("application/x-xz")
      [] Len(data) > 3 /\ At(data, 0, << 37, 80, 68, 70 >>) -> Some("application/pdf")
      [] Len(data) > 2 /\ (At(data, 0, << 67, 87, 83 >>) \/ At(data, 0, << 70, 87, 83 >>))
           -> Some("application/x-shockwave-flash")
      [] Len(data) > 4 /\ At(data, 0, << 123, 92, 114, 116, 102 >>) -> Some("application/rtf")
      [] Len(data) > 35 /\ At(data, 34, << 76, 80 >>) /\ (At(data, 8, << 2, 0, 1 >>) \/
           At(data, 8, << 1, 0, 0 >>) \/ At(data, 8, << 2, 0, 2 >>))
           -> Some("application/octet-stream")
      [] Len(data) > 1 /\ At(data, 0, << 37, 33 >>) -> Some("application/postscript")
      [] Len(data) > 3 /\ At(data, 0, << 83, 81, 76, 105 >>) -> Some("application/vnd.sqlite3")
      [] Len(data) > 3 /\ At(data, 0, << 78, 69, 83, 26 >>)
           -> Some("application/x-nintendo-nes-rom")
      [] Len(data) > 3 /\ At(data, 0, << 67, 114, 50, 52 >>)
           -> Some("application/x-google-chrome-extension")
      [] Len(data) > 3 /\ (At(data, 0, << 77, 83, 67, 70 >>) \/ At(data, 0, << 73, 83, 99, 40 >>))
           -> Some("application/vnd.ms-cab-compressed")
      [] Len(data) > 20 /\ At(data, 0, DebMagic) -> Some("application/vnd.debian.binary-package")
      [] Len(data) > 6 /\ At(data, 0, << 33, 60, 97, 114, 99, 104, 62 >>)
           -> Some("application/x-unix-archive")
      [] Len(data) > 1 /\ (At(data, 0, << 31, 160 >>) \/ At(data, 0, << 31, 157 >>))
           -> Some("application/x-compress")
      [] Len(data) > 3 /\ At(data, 0, << 76, 90, 73, 80 >>) -> Some("application/x-lzip")
      [] Len(data) > 96 /\ At(data, 0, << 237, 171, 238, 219 >>) -> Some("application/x-rpm")
      [] Len(data) > 131 /\ At(data, 128, << 68, 73, 67, 77 >>) -> Some("application/dicom")
      [] Len(data) > 3 /\ At(data, 0, << 40, 181, 47, 253 >>) -> Some("application/zstd")
      [] Len(data) > 7 /\ At(data, 0, << 208, 207, 17, 224, 161, 177, 26, 225 >>)
           -> Some("application/x-ole-storage")
      [] OTHER -> None

\* infer matchers::text, in the order infer tries them.
InferText(data) ==
    CASE IsHtml(data) -> Some("text/html")
      [] StartsWithIgnoreCase(TrimStart(data), << 60, 63, 120, 109, 108 >>) -> Some("text/xml")
      [] Len(data) > 2 /\ At(data, 0, << 35, 33 >>) -> Some("text/x-shellscript")
      [] OTHER -> None

\* infer::get(&cover_data).map(|t| t.mime_type()): the type of the first matcher that
\* accepts the leading bytes, as an Option.  The matchers are tried group by group;
\* the document matchers, which look for the parts of an office document inside a ZIP
\* or OLE container, are not told apart from the archive types here.
InferMimeType(data) ==
    CASE IsSome(InferApp(data)) -> InferApp(data)
      [] IsSome(InferBook(data)) -> InferBook(data)
      [] IsSome(InferImage(data)) -> InferImage(data)
      [] IsSome(InferVideo(data)) -> InferVideo(data)
      [] IsSome(InferAudio(data)) -> InferAudio(data)
      [] IsSome(InferFont(data)) -> InferFont(data)
      [] IsSome(InferArchive(data)) -> InferArchive(data)
      [] OTHER -> InferText(data)

\* str::to_lowercase on the ASCII letters of a MIME type.
LowerChar(c) ==
    CASE c = "A" -> "a" [] c = "B" -> "b" [] c = "C" -> "c" [] c = "D" -> "d"
      [] c = "E" -> "e" [] c = "F" -> "f" [] c = "G" -> "g" [] c = "H" -> "h"
      [] c = "I" -> "i" [] c = "J" -> "j" [] c = "K" -> "k" [] c = "L" -> "l"
      [] c = "M" -> "m" [] c = "N" -> "n" [] c = "O" -> "o" [] c = "P" -> "p"
      [] c = "Q" -> "q" [] c = "R" -> "r" [] c = "S" -> "s" [] c = "T" -> "t"
      [] c = "U" -> "u" [] c = "V" -> "v" [] c = "W" -> "w" [] c = "X" -> "x"
      [] c = "Y" -> "y" [] c = "Z" -> "z" [] OTHER -> c

RECURSIVE ToLowercase(_)
ToLowercase(str) ==
    IF Len(str) = 0 THEN ""
    ELSE LowerChar(SubSeq(str, 1, 1)) \o ToLowercase(SubSeq(str, 2, Len(str)))

\* MimeType::from_str: the five types MimeType names, matched on the lowercased string
\* ("image/jpg" is Jpeg too), Unknown(mime) with the string as given for every other.
MimeFromStr(mime) ==
    LET lower == ToLowercase(mime)
    IN  CASE lower \in {"image/jpeg", "image/jpg"} -> "Jpeg"
          [] lower = "image/png" -> "Png"
          [] lower = "image/tiff" -> "Tiff"
          [] lower = "image/bmp" -> "Bmp"
          [] lower = "image/gif" -> "Gif"
          [] OTHER -> "Unknown(" \o mime \o ")"

\* infer::get(&cover_data).map(|t| MimeType::from_str(t.mime_type())).unwrap_or(MimeType::Jpeg)
SniffMime(data) ==
    IF IsSome(InferMimeType(data)) THEN MimeFromStr(Unwrap(InferMimeType(data))) ELSE "Jpeg"

\* SniffMime of the bodies the image server sends, computed once.
CoverBodyMime == [body \in CoverBodies |-> SniffMime(body)]

\* The (cover_data, mime_type) pair of lines 331-334: mime_type is SniffMime(cover_data).
CoverEntry(data) ==
    [data |-> data,
     mime |-> IF data \in CoverBodies THEN CoverBodyMime[data] ELSE SniffMime(data)]

\* A slip: a cache that keeps the newest entry only.
CacheInsertEvicts(cache, id, data) ==
    [x \in {id} |-> CoverEntry(data)]

\* self.album_cover_cache.insert(id, (cover_data, mime_type))
CacheInsert(cache, id, data) ==
    [x \in (DOMAIN cache) \cup {id} |-> IF x = id THEN CoverEntry(data) ELSE cache[x]]

EmptyCache == [x \in {} |-> 0]

NoCover == [data |-> << >>, mime |-> ""]

\* What the image server answers to a request: no response, or a body.
Responses == {None} \cup { Some(body) : body \in CoverBodies }

\* What the image server answers during an album download: no response, or the PNG.
AlbumResponses == { None, Some(<< 137, 80, 78, 71, 1 >>) }

\* A slip: a failed request leaves an empty entry in the cache.
download_cover_caches_failure(cache, id, response) ==
    IF response = None
    THEN [ok |-> FALSE, cache |-> CacheInsert(cache, id, << >>)]
    ELSE [ok |-> TRUE, cache |-> CacheInsert(cache, id, Unwrap(response))]

\* download_cover(id): the request, and on a response the insertion into the cache.
download_cover(cache, id, response) ==
    IF response = None
    THEN [ok |-> FALSE, cache |-> cache]
    ELSE [ok |-> TRUE, cache |-> CacheInsert(cache, id, Unwrap(response))]

\* A slip: the cache is not consulted, every call downloads.
get_cover_always_fetches(cache, covers, response) ==
    IF covers = << >>
    THEN [cache |-> cache, fetched |-> << >>,
          returned |-> [id |-> "", res |-> "Panic", val |-> NoCover]]
    ELSE LET cover_id == MaxByKey(covers).id
             d == download_cover(cache, cover_id, response)
         IN  IF d.ok
             THEN [cache |-> d.cache, fetched |-> << [id |-> cover_id, ok |-> TRUE] >>,
                   returned |-> [id |-> cover_id, res |-> "Ok", val |-> d.cache[cover_id]]]
             ELSE [cache |-> d.cache, fetched |-> << [id |-> cover_id, ok |-> FALSE] >>,
                   returned |-> [id |-> cover_id, res |-> "Err", val |-> NoCover]]

\* get_cover(track): the new cache, the fetches issued and what the call returns;
\* covers.iter().max_by_key(..).unwrap() panics on a track without covers.
get_cover(cache, covers, response) ==
    IF covers = << >>
    THEN [cache |-> cache, fetched |-> << >>,
          returned |-> [id |-> "", res |-> "Panic", val |-> NoCover]]
    ELSE LET cover_id == MaxByKey(covers).id
         IN  IF cover_id \in DOMAIN cache
             THEN [cache |-> cache, fetched |-> << >>,
                   returned |-> [id |-> cover_id, res |-> "Ok", val |-> cache[cover_id]]]
             ELSE LET d == download_cover(cache, cover_id, response)
                  IN  IF d.ok
                      THEN [cache |-> d.cache,
                            fetched |-> << [id |-> cover_id, ok |-> TRUE] >>,
                            returned |-> [id |-> cover_id, res |-> "Ok",
                                          val |-> d.cache[cover_id]]]
                      ELSE [cache |-> d.cache,
                            fetched |-> << [id |-> cover_id, ok |-> FALSE] >>,
                            returned |-> [id |-> cover_id, res |-> "Err", val |-> NoCover]]

(***************************************************************************)
(* The inputs of the download pipeline.                                    *)
(***************************************************************************)
CoversChoices ==
    { << >>,
      << [id |-> "c1", size |-> "DEFAULT"], [id |-> "c2", size |-> "LARGE"] >> }

FilesChoices ==
    { << >>,
      << << "OGG_VORBIS_96", 2 >>, << "OGG_VORBIS_320", 1 >> >>,
      << << "MP3_96", 1 >>, << "FLAC_FLAC", 2 >> >>,
      << << "OGG_VORBIS_160", 2 >> >> }

\* The id of the track of the catalogue with these files and these covers (track.id);
\* the tracks of the catalogue differ in their files or in their covers.
TrackIdOf(files, covers) ==
    LET first == IF files = << >> THEN "" ELSE files[1][1]
    IN  IF covers = << >>
        THEN CASE first = "" -> "t1"
               [] first = "OGG_VORBIS_96" -> "t2"
               [] first = "MP3_96" -> "t3"
               [] OTHER -> "t4"
        ELSE CASE first = "" -> "t5"
               [] first = "OGG_VORBIS_96" -> "t6"
               [] first = "MP3_96" -> "t7"
               [] OTHER -> "t8"

\* A track of the catalogue whose first artist's name is an absolute path ("/.."):
\* the file name made of it is absolute too.
AbsoluteTrack ==
    [isTrack |-> TRUE, id |-> "t9", absolute |-> TRUE,
     files |-> << << "MP3_96", 1 >>, << "FLAC_FLAC", 2 >> >>,
     covers |-> << [id |-> "c1", size |-> "DEFAULT"], [id |-> "c2", size |-> "LARGE"] >>]

\* What Track::get may resolve a track URI to: a track of the catalogue (the listing
\* may name one track at several positions), or an item whose id is not a track id.
TrackChoices ==
    { [isTrack |-> TRUE, id |-> TrackIdOf(f, c), absolute |-> FALSE, files |-> f, covers |-> c] :
        f \in FilesChoices, c \in CoversChoices }
    \cup { AbsoluteTrack }
    \cup { [isTrack |-> FALSE, id |-> "e1", absolute |-> FALSE, files |-> << >>,
            covers |-> << >>] }

\* The length of the remote object a file handle names (stream_loader_controller.len()):
\* one longer than the vorbis header, one shorter (a vorbis object of either length
\* and an object of another format are among FilesChoices).
RemoteLen(file_id) == IF file_id % 2 = 1 THEN SPOTIFY_OGG_HEADER_END + 2 ELSE 2

NoTrack == [isTrack |-> TRUE, id |-> "", absolute |-> FALSE, files |-> << >>, covers |-> << >>]
NoFiles == << >>
NoStream == [data |-> << >>, pos |-> 0]

Ok == << "Ok" >>
Err(stage) == << "Err", stage >>

LogLine(level, i, msg) == [level |-> level, idx |-> i, msg |-> msg]

(***************************************************************************)
(* Downloader::download_album and the stages of download_track.  pc names  *)
(* the stage about to run; every action runs one stage to its next await   *)
(* or return, and records it in trace.                                     *)
(***************************************************************************)
\* The locals of download_track go out of scope when it returns.
LocalsDropped ==
    /\ track' = NoTrack
    /\ selected' = None
    /\ key' = None
    /\ stream' = NoStream
    /\ audio_file' = None
    /\ ret' = None

\* A slip: a loop that stops one track short.
ReturnOkSkipsLast ==
    /\ IF idx + 1 < ntracks
       THEN pc' = "ResolveTrack" /\ idx' = idx + 1 /\ result' = result
       ELSE pc' = "Returned" /\ idx' = idx /\ result' = Ok
    /\ LocalsDropped

\* A slip: a loop that does not advance to the next entry of the listing.
ReturnOkRevisits ==
    /\ IF idx < ntracks
       THEN pc' = "ResolveTrack" /\ idx' = idx /\ result' = result
       ELSE pc' = "Returned" /\ idx' = idx /\ result' = Ok
    /\ LocalsDropped

\* download_track returned Ok(()): the for loop of download_album goes on.
ReturnOk ==
    /\ IF idx < ntracks
       THEN pc' = "ResolveTrack" /\ idx' = idx + 1 /\ result' = result
       ELSE pc' = "Returned" /\ idx' = idx /\ result' = Ok
    /\ LocalsDropped

\* A slip: the loop drops the track's error and goes on.
PropagateSwallowed(stage) == ReturnOk

\* An error carried by `?` through download_track_by_uri(..).await? out of download_album.
Propagate(stage) ==
    /\ pc' = "Returned" /\ idx' = idx /\ result' = Err(stage)
    /\ LocalsDropped

Ran(stage, outcome) == trace' = Append(trace, << idx, stage, outcome >>)

\* download_album up to the loop: create_dir_all, its result dropped.
DownloadAlbum ==
    /\ pc = "Idle"
    /\ \/ dir' = TRUE /\ Ran("CreateDir", "ok")
       \/ dir' = FALSE /\ Ran("CreateDir", "fail")
    /\ IF ntracks = 0
       THEN pc' = "Returned" /\ idx' = idx /\ result' = Ok
       ELSE pc' = "ResolveTrack" /\ idx' = 1 /\ result' = result
    /\ UNCHANGED << ntracks, track, selected, key, stream, audio_file, fresh, out, ret,
                    saved, disk, log, album_cover_cache, fetches, cover_returns >>

\* download_track_by_uri: Track::get(..).await?
ResolveTrack ==
    /\ pc = "ResolveTrack"
    /\ \/ /\ Ran("ResolveTrack", "fail")
          /\ Propagate("ResolveTrack")
       \/ /\ Ran("ResolveTrack", "ok")
          /\ track' \in TrackChoices
          /\ pc' = "SelectFormat"
          /\ UNCHANGED << idx, result, selected, key, stream, audio_file, ret >>
    /\ UNCHANGED << ntracks, fresh, out, dir, saved, disk, log, album_cover_cache, fetches,
                    cover_returns >>

\* A slip: a track without a supported format ends the album with an error.
SelectFormatStepFatal ==
    /\ pc = "SelectFormat"
    /\ IF ~track.isTrack
       THEN /\ Ran("SelectFormat", "notrack")
            /\ ReturnOk
            /\ log' = log
       ELSE IF SelectFormat(track.files) = None
       THEN /\ Ran("SelectFormat", "none")
            /\ log' = log \cup {LogLine("warn", idx, "unsupported")}
            /\ Propagate("SelectFormat")
       ELSE /\ Ran("SelectFormat", "ok")
            /\ selected' = SelectFormat(track.files)
            /\ pc' = "OpenRemote"
            /\ UNCHANGED << idx, result, track, key, stream, audio_file, ret, log >>
    /\ UNCHANGED << ntracks, fresh, out, dir, saved, disk, album_cover_cache, fetches,
                    cover_returns >>

\* A slip: the key is requested before the remote object is opened.
SelectFormatStepSkipsOpen ==
    /\ pc = "SelectFormat"
    /\ IF ~track.isTrack
       THEN /\ Ran("SelectFormat", "notrack")
            /\ ReturnOk
            /\ log' = log
       ELSE IF SelectFormat(track.files) = None
       THEN /\ Ran("SelectFormat", "none")
            /\ log' = log \cup {LogLine("warn", idx, "unsupported")}
            /\ ReturnOk
       ELSE /\ Ran("SelectFormat", "ok")
            /\ selected' = SelectFormat(track.files)
            /\ pc' = "FetchKey"
            /\ UNCHANGED << idx, result, track, key, stream, audio_file, ret, log >>
    /\ UNCHANGED << ntracks, fresh, out, dir, saved, disk, album_cover_cache, fetches,
                    cover_returns >>

\* download_track up to the format selection (lines 189-216).
SelectFormatStep ==
    /\ pc = "SelectFormat"
    /\ IF ~track.isTrack
       THEN /\ Ran("SelectFormat", "notrack")
            /\ ReturnOk
            /\ log' = log
       ELSE IF SelectFormat(track.files) = None
       THEN /\ Ran("SelectFormat", "none")
            /\ log' = log \cup {LogLine("warn", idx, "unsupported")}
            /\ ReturnOk
       ELSE /\ Ran("SelectFormat", "ok")
            /\ selected' = SelectFormat(track.files)
            /\ pc' = "OpenRemote"
            /\ UNCHANGED << idx, result, track, key, stream, audio_file, ret, log >>
    /\ UNCHANGED << ntracks, fresh, out, dir, saved, disk, album_cover_cache, fetches,
                    cover_returns >>

\* AudioFile::open(..).await and get_stream_loader_controller()? (lines 217-226).
OpenRemote ==
    /\ pc = "OpenRemote"
    /\ \/ /\ Ran("OpenRemote", "fail")
          /\ log' = log \cup {LogLine("error", idx, "open")}
          /\ ReturnOk
       \/ /\ Ran("OpenRemote", "fail_controller")
          /\ Propagate("OpenRemote")
          /\ log' = log
       \/ /\ Ran("OpenRemote", "ok")
          /\ stream' = [data |-> RemoteData(RemoteLen(selected[1][2])), pos |-> 0]
          /\ pc' = "FetchKey"
          /\ UNCHANGED << idx, result, track, selected, key, audio_file, ret, log >>
    /\ UNCHANGED << ntracks, fresh, out, dir, saved, disk, album_cover_cache, fetches,
                    cover_returns >>

\* A slip: a failed key request skips the track.
FetchKeySkips ==
    /\ pc = "FetchKey"
    /\ \/ /\ Ran("FetchKey", "ok")
          /\ key' = Some("key")
          /\ log' = log
          /\ pc' = "Window"
          /\ UNCHANGED << idx, result, track, selected, stream, audio_file, ret >>
       \/ /\ Ran("FetchKey", "fail")
          /\ log' = log \cup {LogLine("warn", idx, "key")}
          /\ ReturnOk
    /\ UNCHANGED << ntracks, fresh, out, dir, saved, disk, album_cover_cache, fetches,
                    cover_returns >>

\* self.session.audio_key().request(track_id, file_id).await (lines 227-233).
FetchKey ==
    /\ pc = "FetchKey"
    /\ \/ /\ Ran("FetchKey", "ok")
          /\ key' = Some("key")
          /\ log' = log
       \/ /\ Ran("FetchKey", "fail")
          /\ key' = None
          /\ log' = log \cup {LogLine("warn", idx, "key")}
    /\ pc' = "Window"
    /\ UNCHANGED << ntracks, idx, result, track, selected, stream, audio_file, fresh, out,
                    ret, dir, saved, disk, album_cover_cache, fetches, cover_returns >>

\* A slip: the container header is not skipped.
WindowOffsetNone(format) == 0

\* The offset download_track gives the window (line 235).
WindowOffset(format) == IF is_ogg_vorbis(format) THEN SPOTIFY_OGG_HEADER_END ELSE 0

\* AudioDecrypt::new and Subfile::new (lines 234-242).
Window ==
    /\ pc = "Window"
    /\ \E io_error \in BOOLEAN :
         LET r == SubfileNew(AudioDecryptNew(key, stream), WindowOffset(selected[1][1]),
                             Len(stream.data), io_error)
         IN  IF r.ok
             THEN /\ Ran("Window", "ok")
                  /\ stream' = r.stream
                  /\ audio_file' = Some(r.subfile)
                  /\ pc' = "WriteBytes"
                  /\ UNCHANGED << idx, result, track, selected, key, ret, log >>
             ELSE /\ Ran("Window", "fail")
                  /\ log' = log \cup {LogLine("error", idx, "subfile")}
                  /\ ReturnOk
    /\ UNCHANGED << ntracks, fresh, out, dir, saved, disk, album_cover_cache, fetches,
                    cover_returns >>

OutFile(ext, bytes, tag) == [ext |-> ext, bytes |-> bytes, tag |-> tag]

\* The path of the output file of a track: dirpath.push("{artists} - {name} ({id}).{ext}")
\* (lines 255-259); artists and name are the track's.  PathBuf::push replaces the album
\* directory by the file name when the file name is absolute (abs).
FilePath(t, ext) == [abs |-> t.absolute, id |-> t.id, ext |-> ext]

\* File::create(path) can succeed: in the album directory when that directory exists,
\* at an absolute file name wherever the directories it names exist.
CanCreate(path) == path.abs \/ dir

\* File::create(path) and the bytes written to it: a new file, or the old one truncated.
CreateFile(files, path, file) ==
    [x \in (DOMAIN files) \cup {path} |-> IF x = path THEN file ELSE files[x]]

\* save_decrypted_audio up to the copy: track.id.to_id()?, File::create(..)? and
\* copy(..)? (lines 254-262).  to_id or File::create fails and nothing is written; or
\* the file is created and the copy fails after any number of the bytes, all of them
\* included (a read that fails where the end of the stream is due); or the copy ends.
WriteBytes ==
    /\ pc = "WriteBytes"
    /\ LET ext == get_extension_from_format(selected[1][1])
           path == FilePath(track, ext)
           all == CopyAll(stream, Unwrap(audio_file)).bytes
       IN  \/ /\ Ran("WriteBytes", "fail")
              /\ Propagate("WriteBytes")
              /\ disk' = disk
              /\ saved' = saved
           \/ /\ CanCreate(path)
              /\ Ran("WriteBytes", "fail")
              /\ \E n \in 0 .. Len(all) :
                    disk' = CreateFile(disk, path, OutFile(ext, SubSeq(all, 1, n), None))
              /\ saved' = saved
              /\ Propagate("WriteBytes")
           \/ /\ CanCreate(path)
              /\ Ran("WriteBytes", "ok")
              /\ disk' = CreateFile(disk, path, OutFile(ext, all, None))
              /\ saved' = saved \cup {[idx |-> idx, path |-> path]}
              /\ stream' = CopyAll(stream, Unwrap(audio_file)).stream
              /\ pc' = "BuildTags"
              /\ UNCHANGED << idx, result, track, selected, key, audio_file, ret >>
    /\ UNCHANGED << ntracks, fresh, out, dir, log, album_cover_cache, fetches, cover_returns >>

\* apply_tag up to the cover: the tag type and the five text items, the last of them
\* track.id.to_uri()? (lines 276-285).
BuildTags ==
    /\ pc = "BuildTags"
    /\ \/ /\ Ran("BuildTags", "fail")
          /\ Propagate("BuildTags")
       \/ /\ Ran("BuildTags", "ok")
          /\ pc' = "FetchCover"
          /\ UNCHANGED << idx, result, track, selected, key, stream, audio_file, ret >>
    /\ UNCHANGED << ntracks, fresh, out, dir, saved, disk, log, album_cover_cache, fetches,
                    cover_returns >>

\* get_cover(track).await? (line 288): the cover for the picture of the tag.
FetchCover ==
    /\ pc = "FetchCover"
    /\ \E response \in AlbumResponses :
         LET r == get_cover(album_cover_cache, track.covers, response)
         IN  /\ album_cover_cache' = r.cache
             /\ fetches' = fetches \o r.fetched
             /\ cover_returns' = Append(cover_returns, r.returned)
             /\ CASE r.returned.res = "Panic" ->
                       /\ Ran("FetchCover", "panic")
                       /\ pc' = "Panicked"
                       /\ UNCHANGED << idx, result, track, selected, key, stream,
                                       audio_file, ret >>
                  [] r.returned.res = "Err" ->
                       /\ Ran("FetchCover", "fail")
                       /\ Propagate("FetchCover")
                  [] r.returned.res = "Ok" ->
                       /\ Ran("FetchCover", "ok")
                       /\ ret' = Some(r.returned.val)
                       /\ pc' = "EmbedTags"
                       /\ UNCHANGED << idx, result, track, selected, key, stream, audio_file >>
    /\ UNCHANGED << ntracks, fresh, out, dir, saved, disk, log >>

tag_type(ext) == IF ext \in {"ogg", "flac"} THEN "VorbisComments" ELSE "Id3v2"

\* tag.push_picture and tag.save_to_path (lines 289-303).
EmbedTags ==
    /\ pc = "EmbedTags"
    /\ \/ /\ Ran("EmbedTags", "fail")
          /\ log' = log \cup {LogLine("warn", idx, "tag")}
          /\ disk' = disk
       \/ /\ Ran("EmbedTags", "ok")
          /\ LET ext == get_extension_from_format(selected[1][1])
             IN  disk' = [disk EXCEPT ![FilePath(track, ext)].tag =
                            Some([type |-> tag_type(ext), picture |-> Unwrap(ret)])]
          /\ log' = log
    /\ ReturnOk
    /\ UNCHANGED << ntracks, fresh, out, dir, saved, album_cover_cache, fetches, cover_returns >>

Init ==
    /\ pc = "Idle"
    /\ ntracks \in 0 .. MaxTracks
    /\ idx = 0
    /\ track = NoTrack
    /\ selected = None
    /\ key = None
    /\ stream = NoStream
    /\ audio_file = None
    /\ fresh = FALSE
    /\ out = << >>
    /\ ret = None
    /\ dir = FALSE
    /\ saved = {}
    /\ disk = NoFiles
    /\ log = {}
    /\ trace = << >>
    /\ result = None
    /\ album_cover_cache = EmptyCache
    /\ fetches = << >>
    /\ cover_returns = << >>

Next ==
    \/ DownloadAlbum
    \/ ResolveTrack
    \/ SelectFormatStep
    \/ OpenRemote
    \/ FetchKey
    \/ Window
    \/ WriteBytes
    \/ BuildTags
    \/ FetchCover
    \/ EmbedTags

Spec == Init /\ [][Next]_vars

\* The album download when every awaited call (Track::get, AudioFile::open, the key
\* request, the reads of the copy, the cover request, the file I/O) returns: a stage
\* that can run does run.
SpecFair == Init /\ [][Next]_vars /\ WF_vars(Next)

(***************************************************************************)
(* Format selection on its own: download_track entered with any candidate  *)
(* mapping of at most MaxFiles entries, in any iteration order.            *)
(***************************************************************************)
InitFormat ==
    /\ pc = "SelectFormat"
    /\ ntracks = 1
    /\ idx = 1
    /\ track \in { [isTrack |-> TRUE, id |-> "t1", absolute |-> FALSE, files |-> f,
                      covers |-> << >>] : f \in FilesUpTo(MaxFiles) }
    /\ selected = None
    /\ key = None
    /\ stream = NoStream
    /\ audio_file = None
    /\ fresh = FALSE
    /\ out = << >>
    /\ ret = None
    /\ dir = TRUE
    /\ saved = {}
    /\ disk = NoFiles
    /\ log = {}
    /\ trace = << >>
    /\ result = None
    /\ album_cover_cache = EmptyCache
    /\ fetches = << >>
    /\ cover_returns = << >>

NextFormat == SelectFormatStep

SpecFormat == InitFormat /\ [][NextFormat]_vars

(***************************************************************************)
(* Subfile on its own: a window built over any stream of at most MaxLen    *)
(* bytes with any offset and length, then read and sought in any order.    *)
(***************************************************************************)
InitSubfile ==
    /\ pc = "SubfileNew"
    /\ \E L \in 0 .. MaxLen : \E p \in 0 .. L : stream = [data |-> RemoteData(L), pos |-> p]
    /\ ntracks = 0
    /\ idx = 0
    /\ track = NoTrack
    /\ selected = None
    /\ key = None
    /\ audio_file = None
    /\ fresh = FALSE
    /\ out = << >>
    /\ ret = None
    /\ dir = FALSE
    /\ saved = {}
    /\ disk = NoFiles
    /\ log = {}
    /\ trace = << >>
    /\ result = None
    /\ album_cover_cache = EmptyCache
    /\ fetches = << >>
    /\ cover_returns = << >>

pipelineVars == << ntracks, idx, track, selected, key, dir, saved, disk, log, trace, result,
                   album_cover_cache, fetches, cover_returns >>

\* Subfile::new(stream, offset, length)
SubfileNewCall ==
    /\ pc = "SubfileNew"
    /\ \E offset \in 0 .. MaxLen, length \in 0 .. MaxLen, io_error \in BOOLEAN :
         LET r == SubfileNew(stream, offset, length, io_error)
         IN  IF r.ok
             THEN /\ pc' = "SubfileReady"
                  /\ stream' = r.stream
                  /\ audio_file' = Some(r.subfile)
                  /\ fresh' = TRUE
                  /\ ret' = Some([op |-> "new", res |-> "Ok"])
             ELSE /\ pc' = "SubfileFailed"
                  /\ stream' = r.stream
                  /\ audio_file' = None
                  /\ fresh' = FALSE
                  /\ ret' = Some([op |-> "new", res |-> "Err"])
    /\ out' = << >>
    /\ UNCHANGED pipelineVars

\* audio_file.read(buf) with a buffer of 1 .. MaxLen bytes.
SubfileReadCall ==
    /\ pc = "SubfileReady"
    /\ \E m \in 1 .. MaxLen :
         LET r == SubfileRead(stream, Unwrap(audio_file), m)
         IN  /\ stream' = r.stream
             /\ ret' = Some([op |-> "read", bytes |-> r.bytes])
             /\ out' = IF fresh THEN out \o r.bytes ELSE out
    /\ UNCHANGED << pc, audio_file, fresh >>
    /\ UNCHANGED pipelineVars

\* The seek requests tried: Start(p) takes a u64, End(e) and Current(d) an i64.
SeekRequests ==
    { [whence |-> "Start", n |-> p] : p \in 0 .. MaxLen + 1 }
    \cup { [whence |-> w, n |-> e] : w \in {"End", "Current"}, e \in -(MaxLen + 1) .. MaxLen + 1 }

\* audio_file.seek(pos)
SubfileSeekCall ==
    /\ pc = "SubfileReady"
    /\ \E pos \in SeekRequests, io_error \in BOOLEAN, wraps \in BOOLEAN :
         LET r == SubfileSeek(stream, Unwrap(audio_file), pos, io_error, wraps)
         IN  /\ r.stream.pos <= 2 * MaxLen + 2
             /\ stream' = r.stream
             /\ ret' = Some([op |-> "seek", arg |-> pos, io_error |-> io_error,
                             res |-> r.res, kind |-> r.kind, val |-> r.val])
             /\ pc' = IF r.res = "Panic" THEN "Panicked" ELSE pc
    /\ fresh' = FALSE
    /\ out' = << >>
    /\ UNCHANGED audio_file
    /\ UNCHANGED pipelineVars

NextSubfile ==
    \/ SubfileNewCall
    \/ SubfileReadCall
    \/ SubfileSeekCall

SpecSubfile == InitSubfile /\ [][NextSubfile]_vars

(***************************************************************************)
(* The cover cache on its own: up to MaxCalls get_cover calls on one       *)
(* Downloader, each for a track with any list of at most two covers.       *)
(***************************************************************************)
CoverIds == { "c1", "c2" }

ImageSizes == { "DEFAULT", "SMALL", "LARGE", "XLARGE" }

CoverArgs ==
    UNION { [1 .. m -> [id : CoverIds, size : ImageSizes]] : m \in 0 .. 2 }

InitCover ==
    /\ pc = "CoverIdle"
    /\ ntracks = 0
    /\ idx = 0
    /\ track = NoTrack
    /\ selected = None
    /\ key = None
    /\ stream = NoStream
    /\ audio_file = None
    /\ fresh = FALSE
    /\ out = << >>
    /\ ret = None
    /\ dir = FALSE
    /\ saved = {}
    /\ disk = NoFiles
    /\ log = {}
    /\ trace = << >>
    /\ result = None
    /\ album_cover_cache = EmptyCache
    /\ fetches = << >>
    /\ cover_returns = << >>

\* self.get_cover(track).await
GetCoverCall ==
    /\ pc = "CoverIdle"
    /\ Len(cover_returns) < MaxCalls
    /\ \E covers \in CoverArgs, response \in Responses :
         LET r == get_cover(album_cover_cache, covers, response)
         IN  /\ track' = [isTrack |-> TRUE, id |-> "t1", absolute |-> FALSE,
                           files |-> << >>, covers |-> covers]
             /\ album_cover_cache' = r.cache
             /\ fetches' = fetches \o r.fetched
             /\ cover_returns' = Append(cover_returns, r.returned)
             /\ ret' = Some(r.returned)
             /\ pc' = IF r.returned.res = "Panic" THEN "Panicked" ELSE pc
    /\ UNCHANGED << ntracks, idx, selected, key, stream, audio_file, fresh, out, dir, saved, disk,
                    log, trace, result >>

NextCover == GetCoverCall

SpecCover == InitCover /\ [][NextCover]_vars

(***************************************************************************)
(* Properties.                                                             *)
(***************************************************************************)
PreferenceSet == { FORMAT_PREFERENCE[j] : j \in 1 .. Len(FORMAT_PREFERENCE) }

\* The index in FORMAT_PREFERENCE of a format.
PreferenceIndex(format) ==
    CHOOSE j \in 1 .. Len(FORMAT_PREFERENCE) : FORMAT_PREFERENCE[j] = format

\* The iteration orders of one mapping.
Orders(files) ==
    { [i \in 1 .. Len(files) |-> files[p[i]]] : p \in Permutations(1 .. Len(files)) }

\* C1: for a track whose candidate mapping holds an entry of FORMAT_PREFERENCE, the
\* format selection returns the key of the mapping with the smallest index in
\* FORMAT_PREFERENCE together with that key's file handle, whatever the iteration
\* order of the mapping.
C1_SelectsEarliestPreference ==
    [][ (pc = "SelectFormat" /\ track.isTrack
            /\ Keys(track.files) \cap PreferenceSet # {})
        => /\ pc' = "OpenRemote"
           /\ IsSome(selected')
           /\ selected'[1][1] \in Keys(track.files)
           /\ \A f \in Keys(track.files) \cap PreferenceSet :
                 PreferenceIndex(selected'[1][1]) <= PreferenceIndex(f)
           /\ \E i \in 1 .. Len(track.files) : track.files[i] = selected'[1]
           /\ \A o \in Orders(track.files) : SelectFormat(o) = selected' ]_vars

\* C1 witness: a mapping of two entries whose first entry in iteration order is not
\* the one selected.
C1_Witness ==
    /\ pc = "OpenRemote"
    /\ Len(track.files) = 2
    /\ IsSome(selected)
    /\ track.files[1][1] # selected[1][1]
    /\ track.files[2] = selected[1]

StagesAfterSelect ==
    { "OpenRemote", "FetchKey", "Window", "WriteBytes", "BuildTags", "FetchCover", "EmbedTags" }

\* The positions of trace at which a stage of track i ran.
Ran_(i) == { k \in 1 .. Len(trace) : trace[k][1] = i }

\* C2: a track whose candidate mapping shares no entry with FORMAT_PREFERENCE is
\* reported as unsupported with a warning, download_track returns Ok (the album is
\* not failed by it), and neither the remote open, the key request nor the file
\* creation ever runs for it: no output file exists for the track.
C2_UnsupportedSkipped ==
    /\ [][ (pc = "SelectFormat" /\ track.isTrack
               /\ Keys(track.files) \cap PreferenceSet = {})
           => /\ LogLine("warn", idx, "unsupported") \in log'
              /\ pc' \in {"ResolveTrack", "Returned"}
              /\ result' \in {None, Ok}
              /\ disk' = disk
              /\ saved' = saved
              /\ fetches' = fetches ]_vars
    /\ [](\A k \in 1 .. Len(trace) :
            (trace[k][2] = "SelectFormat" /\ trace[k][3] = "none")
            => /\ \A sv \in saved : sv.idx # trace[k][1]
               /\ \A m \in Ran_(trace[k][1]) : trace[m][2] \notin StagesAfterSelect)

\* C2 witness: an album that returned Ok with an unsupported track and a written one.
C2_Witness ==
    /\ pc = "Returned"
    /\ result = Ok
    /\ \E u, j \in 1 .. ntracks :
          /\ LogLine("warn", u, "unsupported") \in log
          /\ \A sv \in saved : sv.idx # u
          /\ \E sv \in saved : sv.idx = j /\ sv.path \in DOMAIN disk

Terminal == pc \in {"Returned", "Panicked"}

\* A stage of track j did not succeed (or the track was not processed as a track).
FailedTrack(j) == \E k \in Ran_(j) : trace[k][3] # "ok"

\* The output files of the album directory, by path.
OutputFiles == DOMAIN disk

\* Exactly one track, at position u, had no supported format and no stage of any other
\* track failed.
OnlyUnsupported(u) ==
    /\ Terminal
    /\ \E k \in Ran_(u) : trace[k][2] = "SelectFormat" /\ trace[k][3] = "none"
    /\ \A j \in (1 .. ntracks) \ {u} : ~FailedTrack(j)

\* C3 as claimed: when download_album has ended on an album of N tracks in which
\* exactly one track had no supported format and no stage of any other track failed,
\* it returned Ok, every track of the listing was processed, the warning for the
\* unsupported track was logged and exactly N-1 output files exist.
C3_OneUnsupportedTrack ==
    \A u \in 1 .. ntracks :
        OnlyUnsupported(u)
        => /\ result = Ok
           /\ \A j \in 1 .. ntracks : \E k \in Ran_(j) : trace[k][2] = "SelectFormat"
           /\ LogLine("warn", u, "unsupported") \in log
           /\ Cardinality(OutputFiles) = ntracks - 1

\* C3 as amended: in that case download_album returned Ok, every track of the listing
\* was processed, the warning was logged, each of the other N-1 positions saved its
\* file, and the output files are the files of the distinct paths saved: N-1 files
\* exactly when no two positions of the listing name the same track (a track named
\* twice is written twice to one path), fewer otherwise.
C3_OneFilePerDistinctTrack ==
    \A u \in 1 .. ntracks :
        OnlyUnsupported(u)
        => /\ result = Ok
           /\ \A j \in 1 .. ntracks : \E k \in Ran_(j) : trace[k][2] = "SelectFormat"
           /\ LogLine("warn", u, "unsupported") \in log
           /\ { sv.idx : sv \in saved } = (1 .. ntracks) \ {u}
           /\ Cardinality(saved) = ntracks - 1
           /\ OutputFiles = { sv.path : sv \in saved }
           /\ Cardinality(OutputFiles) <= ntracks - 1
           /\ (Cardinality(OutputFiles) = ntracks - 1)
              <=> (\A a, b \in saved : a.path = b.path => a.idx = b.idx)
           /\ \A a, b \in saved : (a.path = b.path) <=> (a.path.id = b.path.id)

\* C3 witness: an album of three tracks, the second unsupported, the first and the
\* third two different tracks: ended with two files.
C3_Witness ==
    /\ pc = "Returned"
    /\ ntracks = 3
    /\ LogLine("warn", 2, "unsupported") \in log
    /\ ~FailedTrack(1) /\ ~FailedTrack(3)
    /\ { sv.idx : sv \in saved } = {1, 3}
    /\ Cardinality(OutputFiles) = 2

\* C4: when track metadata resolution or WriteBytes fails for track i, download_album
\* returns that error and nothing runs after the failed stage: no stage of a later
\* track is started.
C4_FatalStagesAbort ==
    \A k \in 1 .. Len(trace) :
        (trace[k][2] \in {"ResolveTrack", "WriteBytes"} /\ trace[k][3] = "fail")
        => /\ k = Len(trace)
           /\ pc = "Returned"
           /\ result = Err(trace[k][2])
           /\ idx = trace[k][1]

\* C4 witness: WriteBytes failed on the first track of a longer album, a partial file
\* left behind.
C4_Witness ==
    /\ Len(trace) > 0
    /\ trace[Len(trace)] = << 1, "WriteBytes", "fail" >>
    /\ ntracks >= 2
    /\ saved = {}
    /\ OutputFiles # {}

TagStages == {"BuildTags", "FetchCover", "EmbedTags"}

\* C5: after WriteBytes succeeded, a failure of BuildTags, FetchCover or EmbedTags is
\* not fatal: a warning is logged, the file stays on disk, and download_album does
\* not return an error for it.
C5_TagFailureNotFatal ==
    \A k \in 1 .. Len(trace) :
        (trace[k][2] \in TagStages /\ trace[k][3] = "fail")
        => /\ \E l \in log : l.level = "warn" /\ l.idx = trace[k][1] /\ l.msg = "tag"
           /\ \E sv \in saved : sv.idx = trace[k][1] /\ sv.path \in DOMAIN disk
           /\ result \in {None, Ok}

\* The bytes of the window of a remote object, not decrypted.
RawWindow(sel) ==
    SubSeq(RemoteData(RemoteLen(sel[2])), WindowOffset(sel[1]) + 1, RemoteLen(sel[2]))

\* The path of the output file of the track being processed.
CurrentPath == FilePath(track, get_extension_from_format(Unwrap(selected)[1]))

\* C6: a failed key request does not skip or abort the track: the warning is logged,
\* the next stage is the window construction of the same track with an absent key,
\* a constructed window is followed by WriteBytes, and the file written holds the
\* bytes of the remote object as they are (the decrypt wrapper passes them through).
C6_KeyFailureContinues ==
    /\ \A k \in 1 .. Len(trace) :
          (trace[k][2] = "FetchKey" /\ trace[k][3] = "fail")
          => /\ LogLine("warn", trace[k][1], "key") \in log
             /\ IF k = Len(trace)
                THEN pc = "Window" /\ idx = trace[k][1] /\ key = None
                ELSE /\ trace[k + 1][1] = trace[k][1]
                     /\ trace[k + 1][2] = "Window"
                     /\ (trace[k + 1][3] = "ok" /\ k + 1 < Len(trace))
                        => (trace[k + 2][1] = trace[k][1] /\ trace[k + 2][2] = "WriteBytes")
    /\ (pc \in TagStages /\ key = None)
       => /\ CurrentPath \in DOMAIN disk
          /\ disk[CurrentPath].bytes = RawWindow(Unwrap(selected))

\* C6 witness: a track whose key request failed and whose file was written, not empty.
C6_Witness ==
    /\ pc = "BuildTags"
    /\ key = None
    /\ << idx, "FetchKey", "fail" >> \in { trace[k] : k \in 1 .. Len(trace) }
    /\ CurrentPath \in DOMAIN disk
    /\ disk[CurrentPath].bytes # << >>

\* C7: a failure of the OpenRemote stage (the open, or obtaining the stream handle and
\* its length) or of the window construction logs an error, creates no file for the
\* track and does not make download_album return an error.
C7_OpenFailureSkips ==
    \A k \in 1 .. Len(trace) :
        (trace[k][2] \in {"OpenRemote", "Window"} /\ trace[k][3] # "ok")
        => /\ \E l \in log : l.level = "error" /\ l.idx = trace[k][1]
           /\ \A m \in Ran_(trace[k][1]) : trace[m][2] # "WriteBytes"
           /\ \A sv \in saved : sv.idx # trace[k][1]
           /\ result \in {None, Ok}

\* The bytes of the underlying stream at the absolute positions a .. b-1.
BytesAt(a, b) == [i \in 1 .. (b - a) |-> RemoteByte(a + i - 1)]

\* A fresh Subfile was read until a read returned no bytes.
ReadToEnd ==
    /\ pc = "SubfileReady"
    /\ fresh
    /\ Unwrap(ret).op = "read"
    /\ Unwrap(ret).bytes = << >>

\* C9 as claimed: a fresh Subfile (offset k, length n) read to the end of the stream
\* yields exactly the n bytes at the absolute positions [k, k+n).
C9_ReadsWindowOnly ==
    ReadToEnd
    => /\ Len(out) = Unwrap(audio_file).length
       /\ out = BytesAt(Unwrap(audio_file).offset,
                        Unwrap(audio_file).offset + Unwrap(audio_file).length)

\* C9 as amended: a fresh Subfile (offset k, length n) over a stream of length L read
\* to the end of the stream yields exactly the bytes at the absolute positions
\* [k, L), L-k of them (none when k >= L), none before k, whatever n is; these are the
\* n bytes of the window [k, k+n) exactly when k+n = L, or n = 0 and k > L (nothing is
\* read and the window is empty).
C9_ReadsFromOffsetToStreamEnd ==
    ReadToEnd
    => LET k == Unwrap(audio_file).offset
           n == Unwrap(audio_file).length
           L == Len(stream.data)
           isWindow == /\ Len(out) = n
                       /\ \A i \in 1 .. n : (k + i <= L /\ out[i] = stream.data[k + i])
       IN  /\ out = IF k <= L THEN BytesAt(k, L) ELSE << >>
           /\ out = SubSeq(stream.data, k + 1, L)
           /\ Len(out) = IF k <= L THEN L - k ELSE 0
           /\ isWindow <=> (k + n = L \/ (n = 0 /\ k > L))

\* C9 witness: a window shorter than the rest of the stream, read to the end.
C9_Witness ==
    /\ ReadToEnd
    /\ Unwrap(audio_file).offset = 1
    /\ Unwrap(audio_file).length = 1
    /\ Len(stream.data) = 3
    /\ Len(out) = 2

\* C10: a from-end seek whose position in the underlying stream (its length plus e)
\* lies before the window start is rejected with InvalidInput and leaves the
\* position of the underlying stream unchanged (the stream itself not failing).
C10_FromEndBeforeStartRejected ==
    [][ (pc = "SubfileReady" /\ IsSome(ret') /\ ret'[1].op = "seek"
            /\ ret'[1].arg.whence = "End" /\ ~ret'[1].io_error
            /\ Len(stream.data) + ret'[1].arg.n < Unwrap(audio_file).offset)
        => /\ ret'[1].res = "Err"
           /\ ret'[1].kind = "InvalidInput"
           /\ stream' = stream ]_vars

\* The get_cover calls made for the cover id, and the fetches issued for it.
CallsOn(id) == { i \in 1 .. Len(cover_returns) : cover_returns[i].id = id }
FetchesOf(id) == { i \in 1 .. Len(fetches) : fetches[i].id = id }
CalledIds == { cover_returns[i].id : i \in 1 .. Len(cover_returns) } \ {""}

\* C8 as claimed: over any sequence of get_cover calls whose chosen cover has the
\* same identifier, exactly one network fetch is issued for the identifier and every
\* call returns the same bytes and MIME type.
C8_ExactlyOneFetchPerId ==
    \A id \in CalledIds :
        /\ Cardinality(FetchesOf(id)) = 1
        /\ \A i, j \in CallsOn(id) : cover_returns[i] = cover_returns[j]

\* C8 as amended: at most one successful fetch is issued for an identifier and none
\* after it; a failed fetch caches nothing, so each call that fails has issued a
\* fetch of its own; every call that returns Ok returns the same bytes and MIME
\* type, the cached ones.
C8_OneSuccessfulFetchPerId ==
    \A id \in CalledIds :
        LET oks == { i \in CallsOn(id) : cover_returns[i].res = "Ok" }
            errs == { i \in CallsOn(id) : cover_returns[i].res = "Err" }
        IN  /\ Cardinality({ i \in FetchesOf(id) : fetches[i].ok }) <= 1
            /\ \A i, j \in FetchesOf(id) : i < j => ~fetches[i].ok
            /\ Cardinality(FetchesOf(id))
                 = Cardinality(errs) + (IF oks = {} THEN 0 ELSE 1)
            /\ \A i, j \in oks : cover_returns[i].val = cover_returns[j].val
            /\ oks # {} => /\ id \in DOMAIN album_cover_cache
                           /\ \A i \in oks : cover_returns[i].val = album_cover_cache[id]

\* C8 witness: three calls for one identifier: a failed fetch, a fetch, a cache hit.
C8_Witness ==
    /\ Len(cover_returns) = 3
    /\ \A i \in 1 .. 3 : cover_returns[i].id = "c2"
    /\ cover_returns[1].res = "Err"
    /\ cover_returns[2].res = "Ok"
    /\ cover_returns[3].res = "Ok"
    /\ Len(fetches) = 2

\* The step is a seek on the Subfile that returned Ok (a wrapped result included).
SeekSucceeded ==
    /\ pc = "SubfileReady"
    /\ IsSome(ret')
    /\ ret'[1].op = "seek"
    /\ ret'[1].res \in {"Ok", "OkWrapped"}

\* C11: a from-start seek to the logical position p on a Subfile of offset k moves the
\* underlying stream to the absolute position p+k, so that the next read returns the
\* bytes from the absolute position p+k on; and after every successful seek (from
\* start, from end, from current) the position returned is the absolute position of
\* the underlying stream minus k (a wrapped result is 2^64 above that difference).
C11_SeekTranslatesPositions ==
    [][ SeekSucceeded
        => LET k == Unwrap(audio_file).offset
               p == ret'[1].arg.n
               L == Len(stream.data)
           IN  /\ ret'[1].res = "Ok"
               /\ ret'[1].val = stream'.pos - k
               /\ ret'[1].val >= 0
               /\ ret'[1].arg.whence = "Start"
                  => /\ stream'.pos = p + k
                     /\ ret'[1].val = p
                     /\ SubfileRead(stream', Unwrap(audio_file), MaxLen).bytes
                          = (IF p + k <= L THEN BytesAt(p + k, L) ELSE << >>) ]_vars

\* The ranking of the size classifications, lowest first.
SizeOrder == << "DEFAULT", "SMALL", "LARGE", "XLARGE" >>
SizeIndexOf == [size \in ImageSizes |-> CHOOSE r \in 1 .. Len(SizeOrder) : SizeOrder[r] = size]
SizeIndex(size) == SizeIndexOf[size]

\* The positions of the covers of the highest size classification.
Largest(covers) ==
    { i \in 1 .. Len(covers) :
        \A j \in 1 .. Len(covers) : SizeIndex(covers[j].size) <= SizeIndex(covers[i].size) }

\* C12: a get_cover call for a track with at least one cover descriptor uses the
\* identifier of the descriptor of the highest size classification under
\* default < small < large < extra-large, the last such descriptor on a tie: the call
\* returns that cover, every fetch it issues is for that identifier, and for the
\* sizes {default, large} the identifier is the one of the large descriptor.
C12_FetchesLargestCover ==
    [][ (cover_returns' # cover_returns /\ track'.covers # << >>)
        => LET covers == track'.covers
               r == cover_returns'[Len(cover_returns')]
               best == Largest(covers)
               i == CHOOSE m \in best : \A j \in best : j <= m
           IN  /\ r.res \in {"Ok", "Err"}
               /\ r.id = covers[i].id
               /\ \A j \in 1 .. Len(covers) :
                     /\ SizeIndex(covers[j].size) <= SizeIndex(covers[i].size)
                     /\ j > i => SizeIndex(covers[j].size) < SizeIndex(covers[i].size)
               /\ r.res = "Ok" => r.val = album_cover_cache'[covers[i].id]
               /\ \A f \in Len(fetches) + 1 .. Len(fetches') : fetches'[f].id = covers[i].id
               /\ \A d, l \in 1 .. Len(covers) :
                     (Len(covers) = 2 /\ covers[d].size = "DEFAULT" /\ covers[l].size = "LARGE")
                     => /\ r.id = covers[l].id
                        /\ \A f \in Len(fetches) + 1 .. Len(fetches') :
                              fetches'[f].id = covers[l].id ]_vars

\* C12 witness: a call for two covers of the same size and different identifiers
\* fetched the second, and a call for {large, default} fetched the large one.
C12_Witness ==
    /\ Len(cover_returns) = 2
    /\ Len(fetches) = 2
    /\ track.covers = << [id |-> "c2", size |-> "LARGE"], [id |-> "c1", size |-> "DEFAULT"] >>
    /\ fetches[1] = [id |-> "c1", ok |-> TRUE]
    /\ fetches[2] = [id |-> "c2", ok |-> TRUE]
    /\ cover_returns[1].id = "c1"
    /\ cover_returns[2].id = "c2"

\* C13: for a track with zero cover descriptors get_cover returns an error value to
\* its caller, and the failure touches only the tag-write step of that track: the
\* audio file already written stays on disk as it is, the run does not crash and
\* download_album does not return an error for it.
C13_NoCoverIsAnErrorValue ==
    [][ (pc = "FetchCover" /\ track.covers = << >>)
        => /\ cover_returns'[Len(cover_returns')].res = "Err"
           /\ pc' \in {"ResolveTrack", "Returned"}
           /\ result' \in {None, Ok}
           /\ CurrentPath \in DOMAIN disk
           /\ disk' = disk ]_vars

\* The step is a seek on the Subfile, whatever it returned.
SeekStep ==
    /\ pc = "SubfileReady"
    /\ IsSome(ret')
    /\ ret'[1].op = "seek"

\* C14: every seek on a Subfile (offset, length) that would put the underlying stream
\* before offset or past offset+length is rejected: a seek either fails and leaves
\* the underlying position where it was, or succeeds with the underlying position in
\* [offset, offset+length] and reports a position that is not negative, relative to
\* offset; the subtraction of offset never underflows.
C14_SeeksStayInWindow ==
    [][ SeekStep
        => LET sf == Unwrap(audio_file)
           IN  /\ ret'[1].res \in {"Ok", "Err"}
               /\ ret'[1].res = "Err" => stream' = stream
               /\ ret'[1].res = "Ok"
                  => /\ sf.offset <= stream'.pos
                     /\ stream'.pos <= sf.offset + sf.length
                     /\ ret'[1].val >= 0
                     /\ ret'[1].val <= sf.length ]_vars

\* C15: the cover cache is write-once per key: an identifier present in
\* album_cover_cache is present after every later step and maps to the same bytes
\* and MIME type; no entry is removed or overwritten.
C15_CacheWriteOnce ==
    [][ \A id \in DOMAIN album_cover_cache :
           /\ id \in DOMAIN album_cover_cache'
           /\ album_cover_cache'[id] = album_cover_cache[id] ]_vars

\* C15 witness: two identifiers cached with different bodies, the first one then
\* served from the cache by a third call.
C15_Witness ==
    /\ Len(cover_returns) = 3
    /\ DOMAIN album_cover_cache = {"c1", "c2"}
    /\ album_cover_cache["c1"].data # album_cover_cache["c2"].data
    /\ fetches = << [id |-> "c1", ok |-> TRUE], [id |-> "c2", ok |-> TRUE] >>
    /\ cover_returns[3] = [id |-> "c1", res |-> "Ok", val |-> album_cover_cache["c1"]]

\* The trace entries with which download_track returns Ok: the track is done
\* (tagged), degraded (written but not tagged) or skipped.
EndsTrack(e) ==
    \/ e[2] = "EmbedTags" /\ e[3] \in {"ok", "fail"}
    \/ e[2] = "SelectFormat" /\ e[3] \in {"none", "notrack"}
    \/ e[2] \in {"OpenRemote", "Window"} /\ e[3] = "fail"

\* The trace entries with which download_track ends the album: an error or a panic.
EndsAlbum(e) ==
    \/ e[2] \in {"ResolveTrack", "WriteBytes", "BuildTags", "FetchCover"} /\ e[3] = "fail"
    \/ e[2] = "OpenRemote" /\ e[3] = "fail_controller"
    \/ e[2] = "FetchCover" /\ e[3] = "panic"

\* The stages run so far are those of the tracks 1, 2, .. in the order of the listing,
\* after the creation of the directory.
TracksInOrder ==
    /\ pc = "Idle" <=> trace = << >>
    /\ \A k \in 1 .. Len(trace) : (trace[k][2] = "CreateDir") <=> (k = 1)
    /\ \A k \in 2 .. Len(trace) : trace[k][1] \in 1 .. ntracks
    /\ Len(trace) >= 2 => trace[2] = << 1, "ResolveTrack", trace[2][3] >>
    /\ \A k \in 2 .. Len(trace) - 1 :
          IF EndsTrack(trace[k])
          THEN trace[k + 1][1] = trace[k][1] + 1 /\ trace[k + 1][2] = "ResolveTrack"
          ELSE trace[k + 1][1] = trace[k][1] /\ trace[k + 1][2] # "ResolveTrack"
                  /\ ~EndsAlbum(trace[k])
    /\ LET starts == { k \in 2 .. Len(trace) : trace[k][2] = "ResolveTrack" }
       IN  /\ Cardinality(starts) = Cardinality({ trace[k][1] : k \in starts })
           /\ { trace[k][1] : k \in starts } = 1 .. Cardinality(starts)
    /\ Len(trace) >= 2
       => idx = IF pc = "ResolveTrack" THEN trace[Len(trace)][1] + 1 ELSE trace[Len(trace)][1]
    /\ result = Ok
       => \A i \in 1 .. ntracks :
             \E k \in Ran_(i) : trace[k][2] = "ResolveTrack" /\ trace[k][3] = "ok"

\* C16: download_album attempts to create the album directory before any stage of any
\* track; the tracks are processed in the order of the listing, each at most once,
\* and a stage of track i+1 runs only after track i has reached a terminal outcome;
\* when download_album returns Ok every track of the listing has been processed.
C16_TracksInOrder == []TracksInOrder

\* C16 witness: an album of three tracks returned Ok, the first track skipped at the
\* remote open, the second written but not tagged, the third done.
C16_Witness ==
    /\ pc = "Returned"
    /\ result = Ok
    /\ ntracks = 3
    /\ << 1, "OpenRemote", "fail" >> \in { trace[k] : k \in 1 .. Len(trace) }
    /\ << 2, "EmbedTags", "fail" >> \in { trace[k] : k \in 1 .. Len(trace) }
    /\ trace[Len(trace)] = << 3, "EmbedTags", "ok" >>

\* The stages of one track in their order.
StageOrder ==
    << "ResolveTrack", "SelectFormat", "OpenRemote", "FetchKey", "Window", "WriteBytes",
       "BuildTags", "FetchCover", "EmbedTags" >>

StageIndex(stage) == CHOOSE s \in 1 .. Len(StageOrder) : StageOrder[s] = stage

\* Stage `stage` of track i ran and succeeded n positions before position k of trace.
RanOkBefore(i, stage, k, n) == k - n >= 1 /\ trace[k - n] = << i, stage, "ok" >>

\* The stages of every track in trace are an initial part of StageOrder, in order.
StagesInOrder ==
    /\ \A k \in 2 .. Len(trace) - 1 :
          trace[k + 1][1] = trace[k][1]
          => /\ StageIndex(trace[k + 1][2]) = StageIndex(trace[k][2]) + 1
             /\ trace[k][3] = "ok" \/ (trace[k][2] = "FetchKey" /\ trace[k][3] = "fail")
    /\ Cardinality({ << trace[k][1], trace[k][2] >> : k \in 1 .. Len(trace) }) = Len(trace)
    /\ \A k \in 2 .. Len(trace) :
          LET i == trace[k][1]
          IN  /\ trace[k][2] = "FetchKey" => RanOkBefore(i, "OpenRemote", k, 1)
              /\ trace[k][2] = "WriteBytes" => RanOkBefore(i, "Window", k, 1)
              /\ trace[k][2] = "FetchCover" => RanOkBefore(i, "WriteBytes", k, 2)
              /\ trace[k][2] = "EmbedTags" => RanOkBefore(i, "WriteBytes", k, 3)
              /\ trace[k][2] \in {"FetchCover", "EmbedTags"}
                 => /\ \E m \in 1 .. k - 1 : trace[m] = << i, "WriteBytes", "ok" >>
                    /\ \E sv \in saved : sv.idx = i /\ sv.path \in DOMAIN disk
                    /\ (i = idx /\ pc \in {"FetchCover", "EmbedTags", "Panicked"})
                       => /\ [idx |-> i, path |-> CurrentPath] \in saved
                          /\ Len(disk[CurrentPath].bytes) = Len(RawWindow(Unwrap(selected)))
    /\ \A sv \in saved : \E k \in Ran_(sv.idx) : trace[k] = << sv.idx, "WriteBytes", "ok" >>
    /\ OutputFiles # {} => \E k \in 1 .. Len(trace) : trace[k][2] = "WriteBytes"
    /\ Len(fetches) <= Cardinality({ k \in 1 .. Len(trace) : trace[k][2] = "FetchCover" })
    /\ Len(trace) >= 2 /\ pc \in { StageOrder[s] : s \in 1 .. Len(StageOrder) }
       => IF pc = "ResolveTrack" THEN TRUE
          ELSE /\ trace[Len(trace)][1] = idx
               /\ StageIndex(pc) = StageIndex(trace[Len(trace)][2]) + 1

\* C17: within one track the stages run in the order SelectFormat, OpenRemote,
\* FetchKey, Decrypt+Window, WriteBytes, BuildTags, FetchCover, EmbedTags, each right
\* after the one before it and none twice: the key is requested only after the remote
\* object was opened, the file is created only after the window was constructed, and
\* the cover is fetched and the tag embedded only after the whole stream was copied
\* into the file.
C17_StagesInOrder == []StagesInOrder

\* C17 witness: one track went through every stage, from the resolution of its
\* metadata to the embedded tag.
C17_Witness ==
    /\ Len(trace) = 10
    /\ \A s \in 1 .. Len(StageOrder) : trace[s + 1] = << 1, StageOrder[s], "ok" >>
    /\ \E sv \in saved : sv.idx = 1 /\ IsSome(disk[sv.path].tag)

VorbisFamily == { "OGG_VORBIS_96", "OGG_VORBIS_160", "OGG_VORBIS_320" }

\* The byte of the decrypted stream at the absolute position i (from 0).
PlainByte(i) == IF IsSome(key) THEN 255 - RemoteByte(i) ELSE RemoteByte(i)

\* C18: a track that reaches WriteBytes with a decrypted stream of length L has a
\* window of offset 0xa7 when the selected format is of the vorbis family and 0
\* otherwise, and of declared length L (the whole stream, not L minus the offset);
\* its output file holds exactly the bytes of the decrypted stream at the absolute
\* positions [offset, L), L - offset of them (none when the stream ends before the
\* offset).
C18_WindowAndCopiedBytes ==
    (pc \in {"WriteBytes", "BuildTags", "FetchCover", "EmbedTags"})
    => LET format == Unwrap(selected)[1]
           L == RemoteLen(Unwrap(selected)[2])
           offset == IF format \in VorbisFamily THEN 167 ELSE 0
           sf == Unwrap(audio_file)
       IN  /\ Len(stream.data) = L
           /\ sf.offset = offset
           /\ sf.length = L
           /\ pc = "WriteBytes" => stream.pos = offset
           /\ pc # "WriteBytes"
              => /\ CurrentPath \in DOMAIN disk
                 /\ \A i \in 1 .. Len(disk[CurrentPath].bytes) :
                       disk[CurrentPath].bytes[i] = PlainByte(offset + i - 1)
                 /\ Len(disk[CurrentPath].bytes) = (IF offset <= L THEN L - offset ELSE 0)
                 /\ disk[CurrentPath].ext = (IF format \in VorbisFamily THEN "ogg"
                                             ELSE get_extension_from_format(format))

\* C18 witness: a vorbis track of 0xa7 + 2 bytes, decrypted, written as the two bytes
\* after the header.
C18_Witness ==
    /\ pc = "BuildTags"
    /\ Unwrap(selected)[1] = "OGG_VORBIS_320"
    /\ IsSome(key)
    /\ Unwrap(audio_file) = [offset |-> 167, length |-> 169]
    /\ disk[CurrentPath].bytes = << 255 - RemoteByte(167), 255 - RemoteByte(168) >>
    /\ RemoteByte(167) # RemoteByte(0)

\* C19: a cover fetch that fails leaves album_cover_cache as it was and the call
\* returns the error; the cache holds exactly the identifiers fetched with success,
\* each with a body the server sent; and a get_cover call for an identifier that is
\* not in the cache, as after a failed fetch, issues one new fetch for it.
C19_FailedFetchNotCached ==
    /\ [](/\ DOMAIN album_cover_cache
                = { fetches[i].id : i \in { j \in 1 .. Len(fetches) : fetches[j].ok } }
          /\ \A id \in DOMAIN album_cover_cache : album_cover_cache[id].data \in CoverBodies)
    /\ [][ (cover_returns' # cover_returns /\ track'.covers # << >>)
           => LET r == cover_returns'[Len(cover_returns')]
                  new == SubSeq(fetches', Len(fetches) + 1, Len(fetches'))
              IN  /\ r.id \notin DOMAIN album_cover_cache
                     => /\ Len(new) = 1
                        /\ new[1].id = r.id
                        /\ new[1].ok <=> r.res = "Ok"
                  /\ r.id \in DOMAIN album_cover_cache => new = << >>
                  /\ (new # << >> /\ ~new[1].ok)
                     => /\ album_cover_cache' = album_cover_cache
                        /\ r.res = "Err"
                        /\ r.id \notin DOMAIN album_cover_cache' ]_vars

\* C19 witness: the fetch of the first call failed, the second call for the same
\* identifier fetched again and cached the cover.
C19_Witness ==
    /\ Len(cover_returns) = 2
    /\ fetches = << [id |-> "c1", ok |-> FALSE], [id |-> "c1", ok |-> TRUE] >>
    /\ cover_returns[1].res = "Err"
    /\ cover_returns[2].res = "Ok"
    /\ DOMAIN album_cover_cache = {"c1"}

\* C20: when every collaborator call returns, download_album over a finite track
\* listing terminates, with Ok after the last track or with the first fatal error;
\* no stage of a track runs twice (no track is revisited, no failed stage retried).
C20_AlbumTerminates ==
    /\ <>(/\ pc = "Returned"
          /\ result = Ok \/ \E s \in 1 .. Len(StageOrder) : result = Err(StageOrder[s]))
    /\ [](\A k, m \in 1 .. Len(trace) :
             (trace[k][1] = trace[m][1] /\ trace[k][2] = trace[m][2]) => k = m)
    /\ [](pc = "Returned" /\ result = Ok
            => Len(trace) > 0 /\ trace[Len(trace)][1] = ntracks)
    /\ [](pc = "Returned" /\ result # Ok => EndsAlbum(trace[Len(trace)]))

====
